---- MODULE Spec2Model ----
(***************************************************************************)
(* A model of search_registry_for_application.py: a query over the two     *)
(* "Uninstall" registry subtrees for application keys whose DisplayName    *)
(* value fuzzy-matches a guess.                                            *)
(*                                                                         *)
(* A Python str is a sequence of code points (naturals).  A registry value *)
(* as Python sees it is [py |-> "str", data |-> <<code points>>] for a     *)
(* REG_SZ and [py |-> "int", data |-> <<n>>] for a REG_DWORD.              *)
(***************************************************************************)
EXTENDS Integers, Sequences, FiniteSets, TLC

\* ------------------------------------------------------------------ bounds

\* Most application keys under one uninstall subtree.
MaxKeys == 2
\* Most values under one application key.
MaxValues == 2
\* Longest argument of fuzzy_match in the specification FuzzySpec.
MaxLen == 2

\* ------------------------------------------------------------ Python's str

\* str.isspace for one code point: tab, LF, VT, FF, CR, FS..US, space.
isspace(c) == c \in (9..13) \cup (28..32)

\* str.lower for one code point: A-Z map to a-z; every other code point of the
\* modelled alphabet is left alone, U+0131 (dotless i, 305) among them.
lower_char(c) == IF c \in 65..90 THEN c + 32 ELSE c

\* str.lower
lower(s) == [n \in 1..Len(s) |-> lower_char(s[n])]

\* str.strip with no argument: drops leading and trailing whitespace.
strip(s) ==
    LET keep == {n \in 1..Len(s) : ~isspace(s[n])}
        first == CHOOSE n \in keep : \A o \in keep : n <= o
        last == CHOOSE n \in keep : \A o \in keep : n >= o
    IN  IF keep = {} THEN <<>> ELSE SubSeq(s, first, last)

\* Python's `x in y` on two strs: x is a contiguous run of y.
In(x, y) == \E n \in 0..(Len(y) - Len(x)) : SubSeq(y, n + 1, n + Len(x)) = x

\* A plausible slip: only one direction of containment is tested.
fuzzy_match_one_way(a, b) ==
    LET a_ == strip(lower(a))
        b_ == strip(lower(b))
    IN  In(a_, b_)

\* A plausible slip: `a_ in b_ or b_`, true for every non-empty b_.
fuzzy_match_truthy(a, b) ==
    LET a_ == strip(lower(a))
        b_ == strip(lower(b))
    IN  In(a_, b_) \/ b_ # <<>>

fuzzy_match(a, b) ==
    LET a_ == strip(lower(a))
        b_ == strip(lower(b))
    IN  In(a_, b_) \/ In(b_, a_)

\* ---------------------------------------------------------------- the store

\* "displayname", the literal of line 76.
displayname == <<100, 105, 115, 112, 108, 97, 121, 110, 97, 109, 101>>
\* "DisplayName", the literal of line 122.
DisplayName == <<68, 105, 115, 112, 108, 97, 121, 78, 97, 109, 101>>
\* " displayname ": a value name the store keeps apart from "DisplayName".
PaddedName == <<32>> \o displayname \o <<32>>
\* "Version"
Version == <<86, 101, 114, 115, 105, 111, 110>>

PyStr(s) == [py |-> "str", data |-> s]
PyInt(n) == [py |-> "int", data |-> <<n>>]

\* The (name, data) pairs EnumValue returns for well-formed keys (values[:-1]
\* of line 74), in the order the store enumerates them.
AttributeOrder ==
    << [k |-> PaddedName, v |-> PyStr(<<98>>)],          \* " displayname " = "b"
       [k |-> DisplayName, v |-> PyStr(<<65, 98>>)],     \* DisplayName = "Ab"
       [k |-> Version, v |-> PyInt(8)] >>                \* Version = 8

Attributes == {AttributeOrder[n] : n \in 1..Len(AttributeOrder)}

\* A key whose DisplayName is a REG_DWORD: DisplayName = 1.
MalformedKey == << [k |-> DisplayName, v |-> PyInt(1)] >>

\* The store compares value names without regard to case (and nothing else):
\* no key holds two values whose names differ at most in case.
DistinctNames(vals) ==
    \A m, n \in 1..Len(vals) : m # n => lower(vals[m].k) # lower(vals[n].k)

\* The values of a key enumerate in the store's order.
InStoreOrder(vals) ==
    \A m, n \in 1..Len(vals) :
        m < n => \E o, q \in 1..Len(AttributeOrder) :
                    o < q /\ AttributeOrder[o] = vals[m] /\ AttributeOrder[q] = vals[n]

SeqsUpTo(S, n) == UNION {[1..m -> S] : m \in 0..n}

\* An application key: its values in enumeration order.
ApplicationKeys ==
    {vals \in SeqsUpTo(Attributes, MaxValues) : DistinctNames(vals) /\ InStoreOrder(vals)}
        \cup {MalformedKey}

\* The two paths of lines 37-40.
uninstall_hives ==
    << "SOFTWARE\\Microsoft\\Windows\\CurrentVersion\\Uninstall",
       "SOFTWARE\\WOW6432Node\\Microsoft\\Windows\\CurrentVersion\\Uninstall" >>

\* The paths the loop of line 44 iterates: uninstall_hives[:1].
ScannedHives == SubSeq(uninstall_hives, 1, 1)

\* The guesses of the command line: "", " aB", "zz".
Guesses == { <<>>, <<32, 97, 66>>, <<122, 122>> }

\* Every content of the two subtrees: up to MaxKeys application keys under the
\* first path; nothing or one matching application under the WOW6432Node path.
Stores ==
    { [p \in {uninstall_hives[1], uninstall_hives[2]} |->
          IF p = uninstall_hives[1] THEN native ELSE wow] :
        native \in SeqsUpTo(ApplicationKeys, MaxKeys),
        wow \in { <<>>, << <<[k |-> DisplayName, v |-> PyStr(<<65, 98>>)]>> >> } }

\* ------------------------------------------------------------------- state

VARIABLES
    store,             \* the registry: path |-> application keys in EnumKey order
    name_guess,        \* args.guess
    verbose,           \* args.verbose
    pc,                \* where the program is
    exc,               \* the exception being raised, or "none"
    handles,           \* the registry handles that are open
    hive_idx,          \* position of the loop of line 44 in ScannedHives
    application_keys,  \* search_hive's list of child key names
    key_idx,           \* position of the loop of line 69 in application_keys
    i,                 \* position of the loop of line 72
    sub_matches,       \* search_hive's matches
    matches,           \* find_application_display_name_by_name's matches
    m_idx,             \* position of the loop of line 118
    output,            \* the lines main has printed
    a, b, r, op        \* FuzzySpec: the arguments, the result, the last change

walk_vars == <<store, name_guess, verbose, pc, exc, handles, hive_idx,
               application_keys, key_idx, i, sub_matches, matches, m_idx, output>>
fuzzy_vars == <<a, b, r, op>>
vars == <<walk_vars, fuzzy_vars>>

\* ----------------------------------------------------------------- handles

HiveHandle == [kind |-> "hive", sub_key |-> 0, key |-> 0]
UninstallHandle(h) == [kind |-> "uninstall_key", sub_key |-> h, key |-> 0]
ApplicationHandle(h, n) == [kind |-> "application_info_key", sub_key |-> h, key |-> n]

\* A with block that forgets to close.
ReleaseLeaks(hs, h) == hs

\* Leaving a with block closes its handle (PyHKEY.__exit__).
Release(hs, h) == hs \ {h}

\* A plausible slip: the outermost handle goes first.
InnermostReversed(hs) ==
    IF \E h \in hs : h.kind = "hive"
      THEN CHOOSE h \in hs : h.kind = "hive"
      ELSE IF \E h \in hs : h.kind = "uninstall_key"
        THEN CHOOSE h \in hs : h.kind = "uninstall_key"
        ELSE CHOOSE h \in hs : h.kind = "application_info_key"

\* The handle of the innermost with block an exception leaves first: line 70's
\* is inside line 63's, which main's call chain puts inside line 43's.
Innermost(hs) ==
    IF \E h \in hs : h.kind = "application_info_key"
      THEN CHOOSE h \in hs : h.kind = "application_info_key"
      ELSE IF \E h \in hs : h.kind = "uninstall_key"
        THEN CHOOSE h \in hs : h.kind = "uninstall_key"
        ELSE CHOOSE h \in hs : h.kind = "hive"

\* ---------------------------------------------------------- pure functions

\* A plausible slip: the name is compared as stored.
NameMatchesExact(k) == k = DisplayName

\* k.lower().strip() == "displayname"
NameMatches(k) == strip(lower(k)) = displayname

\* The dict after the first n values: details[k] = v, the last write winning.
RECURSIVE details_after(_, _)
details_after(vals, n) ==
    IF n = 0 THEN <<>>
    ELSE (vals[n].k :> vals[n].v) @@ details_after(vals, n - 1)

get_key_details(vals) == details_after(vals, Len(vals))

\* str(v), as print applies it.
str(v) == IF v.py = "str" THEN v.data ELSE <<48 + v.data[1]>>

\* Lexicographic order of two strs, by code point.
RECURSIVE StrLess(_, _)
StrLess(x, y) ==
    IF y = <<>> THEN FALSE
    ELSE IF x = <<>> THEN TRUE
    ELSE IF x[1] # y[1] THEN x[1] < y[1]
    ELSE StrLess(Tail(x), Tail(y))

\* json.dumps(m, indent=2, sort_keys=True): the items of m, keys ascending.
RECURSIVE json_items(_, _)
json_items(m, keys) ==
    IF keys = {} THEN <<>>
    ELSE LET k == CHOOSE x \in keys : \A y \in keys \ {x} : StrLess(x, y)
         IN  <<[key |-> k, value |-> m[k]]>> \o json_items(m, keys \ {k})

json_dumps(m) == json_items(m, DOMAIN m)

\* ------------------------------------------------------------ the program

\* main has parsed its arguments (lines 114-116) and is about to call
\* find_application_display_name_by_name.
Init ==
    /\ store \in Stores
    /\ name_guess \in Guesses
    /\ verbose \in BOOLEAN
    /\ pc = "main"
    /\ exc = "none"
    /\ handles = {}
    /\ hive_idx = 0
    /\ application_keys = <<>>
    /\ key_idx = 0
    /\ i = 0
    /\ sub_matches = <<>>
    /\ matches = <<>>
    /\ m_idx = 0
    /\ output = <<>>
    /\ a = <<>> /\ b = <<>> /\ r = TRUE /\ op = "walk"

\* An exception leaves the statement being executed.
Raise(e) ==
    /\ exc' = e
    /\ pc' = "raise"

\* The subtree search_hive is walking, and the values of the key it has open.
sub_key == ScannedHives[hive_idx]
values_of_key == store[sub_key][application_keys[key_idx]]

\* Lines 42-43: matches = []; with ConnectRegistry(None, HKEY_LOCAL_MACHINE).
ConnectRegistry ==
    /\ pc = "main"
    /\ \/ /\ handles' = handles \cup {HiveHandle}
          /\ matches' = <<>>
          /\ hive_idx' = 1
          /\ pc' = "for_sub_key"
          /\ UNCHANGED exc
       \/ /\ Raise("OSError")
          /\ matches' = <<>>
          /\ UNCHANGED <<handles, hive_idx>>
    /\ UNCHANGED <<store, name_guess, verbose, application_keys, key_idx, i,
                   sub_matches, m_idx, output, fuzzy_vars>>

\* Lines 44-45 and 62-63: the next path of the loop, search_hive is called and
\* opens the subtree.
OpenUninstallKey ==
    /\ pc = "for_sub_key"
    /\ hive_idx <= Len(ScannedHives)
    /\ sub_matches' = <<>>
    /\ \/ /\ handles' = handles \cup {UninstallHandle(hive_idx)}
          /\ pc' = "enum_keys"
          /\ UNCHANGED exc
       \/ /\ Raise("OSError")
          /\ UNCHANGED handles
    /\ UNCHANGED <<store, name_guess, verbose, hive_idx, application_keys, key_idx,
                   i, matches, m_idx, output, fuzzy_vars>>

\* Lines 64-67: the names of the child keys, in the store's order.  A child
\* key is named by its position under the subtree.
EnumKeys ==
    /\ pc = "enum_keys"
    /\ \/ /\ application_keys' = [n \in 1..Len(store[sub_key]) |-> n]
          /\ key_idx' = 1
          /\ pc' = "for_application_key"
          /\ UNCHANGED exc
       \/ /\ Raise("OSError")
          /\ UNCHANGED <<application_keys, key_idx>>
    /\ UNCHANGED <<store, name_guess, verbose, handles, hive_idx, i, sub_matches,
                   matches, m_idx, output, fuzzy_vars>>

\* Lines 69-71: the next child key is opened and its values counted.
OpenApplicationKey ==
    /\ pc = "for_application_key"
    /\ key_idx <= Len(application_keys)
    /\ \/ /\ handles' = handles \cup {ApplicationHandle(hive_idx, application_keys[key_idx])}
          /\ i' = 1
          /\ pc' = "for_value"
          /\ UNCHANGED exc
       \/ /\ Raise("OSError")
          /\ UNCHANGED <<handles, i>>
    /\ UNCHANGED <<store, name_guess, verbose, hive_idx, application_keys, key_idx,
                   sub_matches, matches, m_idx, output, fuzzy_vars>>

\* A plausible slip: a break after the first match of a key.
EnumValueBreaks ==
    /\ pc = "for_value"
    /\ i <= Len(values_of_key)
    /\ LET k == values_of_key[i].k
           v == values_of_key[i].v
       IN  \/ /\ IF NameMatches(k) /\ v.py = "str" /\ fuzzy_match(name_guess, v.data)
                   THEN /\ sub_matches' = Append(sub_matches, get_key_details(values_of_key))
                        /\ i' = Len(values_of_key) + 1
                   ELSE /\ i' = i + 1
                        /\ UNCHANGED sub_matches
              /\ UNCHANGED <<pc, exc>>
           \/ /\ Raise("OSError")
              /\ UNCHANGED <<sub_matches, i>>
    /\ UNCHANGED <<store, name_guess, verbose, handles, hive_idx, application_keys,
                   key_idx, matches, m_idx, output, fuzzy_vars>>

\* Lines 72-77, one turn of the loop: the value is read; if its name is a
\* display name, v.lower() is evaluated (an int has none: AttributeError), and
\* on a match the key's details are read again and appended.
EnumValue ==
    /\ pc = "for_value"
    /\ i <= Len(values_of_key)
    /\ LET k == values_of_key[i].k
           v == values_of_key[i].v
       IN  \/ /\ ~(NameMatches(k) /\ v.py # "str")
              /\ sub_matches' =
                    IF NameMatches(k) /\ fuzzy_match(name_guess, v.data)
                      THEN Append(sub_matches, get_key_details(values_of_key))
                      ELSE sub_matches
              /\ i' = i + 1
              /\ UNCHANGED <<pc, exc>>
           \/ /\ NameMatches(k) /\ v.py # "str"
              /\ Raise("AttributeError")
              /\ UNCHANGED <<sub_matches, i>>
           \/ /\ Raise("OSError")
              /\ UNCHANGED <<sub_matches, i>>
    /\ UNCHANGED <<store, name_guess, verbose, handles, hive_idx, application_keys,
                   key_idx, matches, m_idx, output, fuzzy_vars>>

\* Line 70's with block ends: the child key is closed, the loop moves on.
ExitApplicationKey ==
    /\ pc = "for_value"
    /\ i > Len(values_of_key)
    /\ handles' = Release(handles, ApplicationHandle(hive_idx, application_keys[key_idx]))
    /\ key_idx' = key_idx + 1
    /\ pc' = "for_application_key"
    /\ UNCHANGED <<store, name_guess, verbose, exc, hive_idx, application_keys, i,
                   sub_matches, matches, m_idx, output, fuzzy_vars>>

\* Lines 78 and 45: search_hive returns through line 63's with block, and its
\* matches are added to the caller's.
ReturnSearchHive ==
    /\ pc = "for_application_key"
    /\ key_idx > Len(application_keys)
    /\ handles' = Release(handles, UninstallHandle(hive_idx))
    /\ matches' = matches \o sub_matches
    /\ hive_idx' = hive_idx + 1
    /\ pc' = "for_sub_key"
    /\ UNCHANGED <<store, name_guess, verbose, exc, application_keys, key_idx, i,
                   sub_matches, m_idx, output, fuzzy_vars>>

\* Lines 47 and 117: the loop of line 44 is over, line 43's with block closes
\* the root and the matches are returned to main.
ReturnMatches ==
    /\ pc = "for_sub_key"
    /\ hive_idx > Len(ScannedHives)
    /\ handles' = Release(handles, HiveHandle)
    /\ m_idx' = 1
    /\ pc' = "print"
    /\ UNCHANGED <<store, name_guess, verbose, exc, hive_idx, application_keys,
                   key_idx, i, sub_matches, matches, output, fuzzy_vars>>

\* Lines 118-122, one turn of the loop: the match is printed as JSON, or its
\* "DisplayName" item is (a dict without that key raises KeyError).
PrintMatch ==
    /\ pc = "print"
    /\ m_idx <= Len(matches)
    /\ LET m == matches[m_idx]
       IN  IF verbose
             THEN /\ output' = Append(output, json_dumps(m))
                  /\ m_idx' = m_idx + 1
                  /\ UNCHANGED <<pc, exc>>
             ELSE IF DisplayName \in DOMAIN m
               THEN /\ output' = Append(output, str(m[DisplayName]))
                    /\ m_idx' = m_idx + 1
                    /\ UNCHANGED <<pc, exc>>
               ELSE /\ Raise("KeyError")
                    /\ UNCHANGED <<output, m_idx>>
    /\ UNCHANGED <<store, name_guess, verbose, handles, hive_idx, application_keys,
                   key_idx, i, sub_matches, matches, fuzzy_vars>>

\* main returns: the process exits with status 0.
MainReturns ==
    /\ pc = "print"
    /\ m_idx > Len(matches)
    /\ pc' = "done"
    /\ UNCHANGED <<store, name_guess, verbose, exc, handles, hive_idx,
                   application_keys, key_idx, i, sub_matches, matches, m_idx,
                   output, fuzzy_vars>>

\* A plausible slip: a caller catches the exception and goes on with the
\* matches collected so far.
PropagateReturnsPartial ==
    /\ pc = "raise"
    /\ IF handles # {}
         THEN /\ handles' = Release(handles, Innermost(handles))
              /\ UNCHANGED <<pc, matches, m_idx>>
         ELSE /\ pc' = "print"
              /\ matches' = matches \o sub_matches
              /\ m_idx' = 1
              /\ UNCHANGED handles
    /\ UNCHANGED <<store, name_guess, verbose, exc, hive_idx, application_keys,
                   key_idx, i, sub_matches, output, fuzzy_vars>>

\* The exception leaves the innermost with block that is still open, which
\* closes its handle; out of the last one, nothing catches it and the process
\* ends with a traceback.
Propagate ==
    /\ pc = "raise"
    /\ IF handles # {}
         THEN /\ handles' = Release(handles, Innermost(handles))
              /\ UNCHANGED pc
         ELSE /\ pc' = "error"
              /\ UNCHANGED handles
    /\ UNCHANGED <<store, name_guess, verbose, exc, hive_idx, application_keys,
                   key_idx, i, sub_matches, matches, m_idx, output, fuzzy_vars>>

Next ==
    \/ ConnectRegistry
    \/ OpenUninstallKey
    \/ EnumKeys
    \/ OpenApplicationKey
    \/ EnumValue
    \/ ExitApplicationKey
    \/ ReturnSearchHive
    \/ ReturnMatches
    \/ PrintMatch
    \/ MainReturns
    \/ Propagate

Spec == Init /\ [][Next]_vars

\* ------------------------------------------------- fuzzy_match on its own

\* The code points fuzzy_match is tried on: a, A, i, I, U+0131 (dotless i,
\* whose upper case is I) and the space.
Alphabet == {97, 65, 105, 73, 305, 32}

AsciiLetters == (65..90) \cup (97..122)

\* str.swapcase for one code point of Alphabet.
swapcase_char(c) ==
    IF c \in 65..90 THEN c + 32
    ELSE IF c \in 97..122 THEN c - 32
    ELSE IF c = 305 THEN 73
    ELSE c

NoWalk ==
    /\ store = [p \in {uninstall_hives[1], uninstall_hives[2]} |-> <<>>]
    /\ name_guess = <<>>
    /\ verbose = FALSE
    /\ pc = "fuzzy_match"
    /\ exc = "none"
    /\ handles = {}
    /\ hive_idx = 0
    /\ application_keys = <<>>
    /\ key_idx = 0
    /\ i = 0
    /\ sub_matches = <<>>
    /\ matches = <<>>
    /\ m_idx = 0
    /\ output = <<>>

\* fuzzy_match(a, b) has been called on two strs.
FuzzyInit ==
    /\ NoWalk
    /\ a \in SeqsUpTo(Alphabet, MaxLen)
    /\ b \in SeqsUpTo(Alphabet, MaxLen)
    /\ r = fuzzy_match(a, b)
    /\ op = "call"

\* fuzzy_match is called with the two arguments exchanged.
CallSwapped ==
    /\ a' = b
    /\ b' = a
    /\ r' = fuzzy_match(a', b')
    /\ op' = "swap"
    /\ UNCHANGED walk_vars

\* fuzzy_match is called with whitespace added before or after one argument.
CallPadded ==
    /\ \E w \in {c \in Alphabet : isspace(c)}, front \in BOOLEAN :
         \/ /\ Len(a) < MaxLen
            /\ a' = IF front THEN <<w>> \o a ELSE Append(a, w)
            /\ UNCHANGED b
         \/ /\ Len(b) < MaxLen
            /\ b' = IF front THEN <<w>> \o b ELSE Append(b, w)
            /\ UNCHANGED a
    /\ r' = fuzzy_match(a', b')
    /\ op' = "pad"
    /\ UNCHANGED walk_vars

\* fuzzy_match is called with the case of one letter of one argument changed.
CallCaseChanged ==
    /\ \/ \E n \in 1..Len(a) :
            /\ swapcase_char(a[n]) # a[n]
            /\ a' = [a EXCEPT ![n] = swapcase_char(a[n])]
            /\ op' = IF a[n] \in AsciiLetters THEN "case_ascii" ELSE "case_other"
            /\ UNCHANGED b
       \/ \E n \in 1..Len(b) :
            /\ swapcase_char(b[n]) # b[n]
            /\ b' = [b EXCEPT ![n] = swapcase_char(b[n])]
            /\ op' = IF b[n] \in AsciiLetters THEN "case_ascii" ELSE "case_other"
            /\ UNCHANGED a
    /\ r' = fuzzy_match(a', b')
    /\ UNCHANGED walk_vars

FuzzyNext ==
    \/ CallSwapped
    \/ CallPadded
    \/ CallCaseChanged

FuzzySpec == FuzzyInit /\ [][FuzzyNext]_vars

\* ------------------------------------------------ the properties, stated

\* A string lowercased and trimmed.
Norm(s) == strip(lower(s))

\* An attribute whose name is a display name and whose value, a string,
\* contains or is contained by the guess, both lowercased and trimmed.
Qualifies(attr, guess) ==
    /\ Norm(attr.k) = displayname
    /\ attr.v.py = "str"
    /\ \/ In(Norm(attr.v.data), Norm(guess))
       \/ In(Norm(guess), Norm(attr.v.data))

HasDisplayName(key) == \E n \in 1..Len(key) : Norm(key[n].k) = displayname

NumQualifying(key, guess) ==
    Cardinality({n \in 1..Len(key) : Qualifies(key[n], guess)})

\* The full attribute mapping of a key: every name to its value.
FullRecord(key) ==
    [k \in {key[n].k : n \in 1..Len(key)} |->
        LET last == CHOOSE n \in 1..Len(key) :
                       /\ key[n].k = k
                       /\ \A o \in 1..Len(key) : key[o].k = k => o <= n
        IN  key[last].v]

Elements(seq) == {seq[n] : n \in 1..Len(seq)}

ScannedKeys == UNION {Elements(store[ScannedHives[h]]) : h \in 1..Len(ScannedHives)}

\* find_application_display_name_by_name has returned its list to main.
Returned == pc \in {"print", "done"} \/ exc = "KeyError"

\* search_hive has just returned sub_matches for the subtree ScannedHives[h].
SearchHiveReturned(h) == pc = "for_sub_key" /\ hive_idx = h + 1

\* n copies of x.
Copies(x, n) == [c \in 1..n |-> x]

\* What a walk of keys yields when every key gives one full record for each
\* of its qualifying attributes, in order.
RECURSIVE WalkResult(_, _)
WalkResult(keys, guess) ==
    IF keys = <<>> THEN <<>>
    ELSE LET key == keys[Len(keys)]
         IN  WalkResult(SubSeq(keys, 1, Len(keys) - 1), guess)
                \o Copies(FullRecord(key), NumQualifying(key, guess))

\* C1: at every point of the query, each record collected so far (in
\* search_hive's list and in the caller's) is the full attribute mapping of a
\* child key of a scanned subtree that has a qualifying attribute.
C1_EveryRecordIsAMatchingKey ==
    \A rec \in Elements(sub_matches) \cup Elements(matches) :
        \E key \in ScannedKeys :
            /\ rec = FullRecord(key)
            /\ \E n \in 1..Len(key) : Qualifies(key[n], name_guess)

\* Two records have been returned for a guess that is not empty.
C1_Witness ==
    /\ pc = "done"
    /\ name_guess # <<>>
    /\ Len(matches) = 2
    /\ \E key \in ScannedKeys : ~\E n \in 1..Len(key) : Qualifies(key[n], name_guess)

AtMostOneDisplayName(keys) ==
    \A key \in Elements(keys) :
        Cardinality({n \in 1..Len(key) : Norm(key[n].k) = displayname}) <= 1

KeyMatches(key) == \E n \in 1..Len(key) : Qualifies(key[n], name_guess)

\* C2: where no key has two display names, the list search_hive returns is the
\* full records of the keys whose display name matches, one each, in the
\* store's order; one record for one matching key, none for none.
C2_ReturnsMatchingKeysInOrder ==
    \A h \in 1..Len(ScannedHives) :
        (SearchHiveReturned(h) /\ AtMostOneDisplayName(store[ScannedHives[h]])) =>
            LET chosen == SelectSeq(store[ScannedHives[h]], KeyMatches)
            IN  /\ Len(sub_matches) = Len(chosen)
                /\ \A n \in 1..Len(chosen) : sub_matches[n] = FullRecord(chosen[n])
                /\ Len(sub_matches) =
                     Cardinality({n \in 1..Len(store[ScannedHives[h]]) :
                                     KeyMatches(store[ScannedHives[h]][n])})

\* search_hive returned one record out of two keys: the second key's.
C2_Witness ==
    /\ SearchHiveReturned(1)
    /\ AtMostOneDisplayName(store[ScannedHives[1]])
    /\ Len(store[ScannedHives[1]]) = 2
    /\ ~KeyMatches(store[ScannedHives[1]][1])
    /\ KeyMatches(store[ScannedHives[1]][2])
    /\ Len(sub_matches) = 1

\* C3 as claimed: the empty guess returns the record of every child key of the
\* scanned subtree, the keys without a display name too.
C3_AsClaimed ==
    (Returned /\ name_guess = <<>>) =>
        \A key \in ScannedKeys : FullRecord(key) \in Elements(matches)

\* C3 amended: the empty guess returns the record of every child key of the
\* scanned subtree that has a display name attribute, and of no other key.
C3_EmptyGuessReturnsNamedKeys ==
    (Returned /\ name_guess = <<>>) =>
        /\ \A key \in ScannedKeys :
              HasDisplayName(key) => FullRecord(key) \in Elements(matches)
        /\ \A rec \in Elements(matches) :
              \E key \in ScannedKeys : HasDisplayName(key) /\ rec = FullRecord(key)

\* The empty guess returned a key named " displayname " and left out a key
\* that has no display name.
C3_Witness ==
    /\ Returned
    /\ name_guess = <<>>
    /\ Len(matches) = 1
    /\ PaddedName \in DOMAIN matches[1]
    /\ \E key \in ScannedKeys : ~HasDisplayName(key)

\* C9: when the walk has finished its first n keys, search_hive's list is, key
\* after key, as many copies of the key's full record as the key has
\* qualifying attributes (none for a key without one).
C9_OneRecordPerQualifyingAttribute ==
    (pc = "for_application_key") =>
        sub_matches = WalkResult(SubSeq(store[sub_key], 1, key_idx - 1), name_guess)

\* A key with two qualifying attributes has been walked and gave two records.
C9_Witness ==
    /\ pc = "for_application_key"
    /\ key_idx = 2
    /\ NumQualifying(store[sub_key][1], name_guess) = 2
    /\ Len(sub_matches) = 2
    /\ sub_matches[1] = sub_matches[2]

\* C4 as claimed: the returned list is the walk of the first configured path
\* followed by the walk of the second (WOW6432Node) path.
C4_AsClaimed ==
    Returned =>
        matches = WalkResult(store[uninstall_hives[1]], name_guess)
                     \o WalkResult(store[uninstall_hives[2]], name_guess)

Finished == Returned \/ pc = "error"

\* C5: once the query has finished, by returning or by an exception that has
\* left it, no handle is open.
C5_NoHandleOutlivesTheQuery == Finished => handles = {}

\* An exception raised while a child key was open has left the program.
C5_Witness ==
    /\ pc = "error"
    /\ exc = "AttributeError"
    /\ key_idx = 2
    /\ handles = {}

\* C6: once an open or an enumeration has failed, the query is on its way out
\* with that error: nothing is returned to main or printed, and from then on
\* no handle is opened and the walk does not move to another key.
C6_FailureAbortsTheQuery ==
    [][exc' = "OSError" =>
          (/\ pc' \in {"raise", "error"}
           /\ m_idx' = 0
           /\ output' = <<>>
           /\ exc = "OSError" =>
                 (/\ handles' \subseteq handles
                  /\ key_idx' = key_idx
                  /\ hive_idx' = hive_idx
                  /\ matches' = matches))]_vars

\* A failure after a match was collected and before the last key: the program
\* has ended with the error and has printed nothing.
C6_Witness ==
    /\ pc = "error"
    /\ exc = "OSError"
    /\ sub_matches # <<>>
    /\ key_idx < Len(application_keys)
    /\ output = <<>>

\* The values of the qualifying attributes of a walk, in walk order.
RECURSIVE MatchedValues(_, _)
MatchedValues(keys, guess) ==
    IF keys = <<>> THEN <<>>
    ELSE LET key == keys[Len(keys)]
             IsMatch(attr) == Qualifies(attr, guess)
             hits == SelectSeq(key, IsMatch)
         IN  MatchedValues(SubSeq(keys, 1, Len(keys) - 1), guess)
                \o [n \in 1..Len(hits) |-> hits[n].v.data]

\* C7 as claimed: in terse mode, after a query that returned, main has printed
\* one line for each match, the match's display name value, in walk order.
C7_AsClaimed ==
    (~verbose /\ Returned /\ pc \in {"done", "error"}) =>
        output = MatchedValues(store[ScannedHives[1]], name_guess)

\* C10: at most one child key handle is open, a child key handle is open only
\* while its subtree's handle is, and a subtree handle only while the root's.
C10_HandlesAreNested ==
    /\ Cardinality({h \in handles : h.kind = "application_info_key"}) <= 1
    /\ Cardinality({h \in handles : h.kind = "uninstall_key"}) <= 1
    /\ \A h \in handles :
          h.kind = "application_info_key" => UninstallHandle(h.sub_key) \in handles
    /\ \A h \in handles : h.kind = "uninstall_key" => HiveHandle \in handles

\* The second child key is open, inside its subtree, inside the root.
C10_Witness ==
    /\ pc = "for_value"
    /\ handles = {HiveHandle, UninstallHandle(1), ApplicationHandle(1, 2)}

\* C8 as claimed: the result is the same after the arguments are exchanged,
\* after whitespace is added around one, and after any change of letter case.
C8_AsClaimed == [][(r \in BOOLEAN) /\ r' = r]_vars

\* C8 amended: the result is a boolean, and is the same after the arguments
\* are exchanged, after whitespace is added around one, and after the case of
\* an ASCII letter of one is changed.
C8_SymmetricCaseAndSpaceBlind ==
    [][(r \in BOOLEAN) /\ (op' \in {"swap", "pad", "case_ascii"} => r' = r)]_vars

\* " I" and "i" match, the first argument having been padded and its letter's
\* case changed.
C8_Witness ==
    /\ a = <<32, 73>>
    /\ b = <<105>>
    /\ op = "case_ascii"
    /\ r = TRUE

====
